---- MODULE Spec2Model ----
(***************************************************************************)
(* Model of docker_image_scraper.py: the tag fetch (pagination), the       *)
(* version filter/selector get_docker_image_tags, and main(): snapshot     *)
(* load, fan-out over the configured images, reconciliation in completion  *)
(* order, snapshot write and the optional inventory sync.                  *)
(*                                                                         *)
(* A tag, a version and a major are sequences of one-character strings,    *)
(* so that the regular expressions and int() are modelled by what they do. *)
(* A dict is a function whose DOMAIN is its key set.                       *)
(***************************************************************************)
EXTENDS Integers, Sequences, FiniteSets, TLC

VARIABLES
    hub,           \* the pages the registry may serve (environment)
    services,      \* the image names of services.json
    run,           \* number of the current run of main()
    pc,            \* position of main(): start, load, consume, post, sync, done, crashed
    file,          \* all_tags.json: [exists, data]
    all_tags,      \* main's all_tags dict
    updated_tags,  \* main's updated_tags dict
    task,          \* per image: state of its future
    url,           \* per image: does _fetch_and_parse_tags still hold a url
    tags,          \* per image: raw tag names accumulated by the worker
    result,        \* per image: value held by the completed future
    synced,        \* images whose inventory versions were already fetched
    cur,           \* image whose outdated tags are being deleted
    outdated,      \* outdated tags still to DELETE for cur
    start_file,    \* history: the file as it was when the run started
    writes,        \* history: number of writes of all_tags.json in this run
    posted,        \* history: payloads POSTed in this run
    api_seen,      \* history: per image, the api_tags the inventory returned
    deleted        \* history: per image, the ids DELETEd in this run

vars == <<hub, services, run, pc, file, all_tags, updated_tags, task, url, tags, result,
          synced, cur, outdated, start_file, writes, posted, api_seen, deleted>>

-----------------------------------------------------------------------------
\* Bounds of the model.
MaxRuns == 2
MaxPages == 2

\* unique_versions[:10]
TopN == 10

Digits == {"0", "1", "2", "3", "4", "5", "6", "7", "8", "9"}

-----------------------------------------------------------------------------
\* Generic sequence helpers (Python list semantics).

Range(s) == {s[k] : k \in 1..Len(s)}

\* s[:n]
Take(s, n) == SubSeq(s, 1, IF Len(s) < n THEN Len(s) ELSE n)

\* dict.get(key, [])
Get(d, key) == IF key \in DOMAIN d THEN d[key] ELSE <<>>

EmptyMap == [k \in {} |-> <<>>]

\* d.update(u)
Update(d, u) == [k \in DOMAIN d \cup DOMAIN u |-> IF k \in DOMAIN u THEN u[k] ELSE d[k]]

-----------------------------------------------------------------------------
\* The regular expressions of get_docker_image_tags, matched at the start of
\* the tag only (re.match), greedy.

\* length of the run of digits of s that starts at position p
RECURSIVE DigitRun(_, _)
DigitRun(s, p) ==
    IF p <= Len(s) /\ s[p] \in Digits THEN 1 + DigitRun(s, p + 1) ELSE 0

\* v? : position after the optional leading "v"
AfterV(s) == IF Len(s) >= 1 /\ s[1] = "v" THEN 2 ELSE 1

\* (\.\d+){0,n} from position p: the position after the last group matched
RECURSIVE DotGroups(_, _, _)
DotGroups(s, p, n) ==
    IF n > 0 /\ p <= Len(s) /\ s[p] = "." /\ DigitRun(s, p + 1) > 0
    THEN DotGroups(s, p + 1 + DigitRun(s, p + 1), n - 1)
    ELSE p

\* re.match(r'v?\d+(\.\d+){0,2}', tag) is not None
Matches(tag) == DigitRun(tag, AfterV(tag)) > 0

\* re.match(r'v?(\d+(\.\d+){0,2})', tag).group(1)
VersionOf(tag) ==
    LET a == AfterV(tag)
        e == DotGroups(tag, a + DigitRun(tag, a), 2)
    IN  SubSeq(tag, a, e - 1)

\* re.match(r'v?(\d+)', tag).group(1)
MajorOf(tag) ==
    LET a == AfterV(tag) IN SubSeq(tag, a, a + DigitRun(tag, a) - 1)

\* version_tags, line 34
VersionTags(ts) == SelectSeq(ts, Matches)

\* versions, line 35
Versions(ts) ==
    LET vt == VersionTags(ts)
    IN  [k \in 1..Len(vt) |-> [version |-> VersionOf(vt[k]), major |-> MajorOf(vt[k])]]

-----------------------------------------------------------------------------
\* The sort key: tuple(map(int, v['version'].split('.')))

DigitVal(c) ==
    CASE c = "0" -> 0 [] c = "1" -> 1 [] c = "2" -> 2 [] c = "3" -> 3
      [] c = "4" -> 4 [] c = "5" -> 5 [] c = "6" -> 6 [] c = "7" -> 7
      [] c = "8" -> 8 [] c = "9" -> 9

\* int(s) of a digit string
RECURSIVE ToInt(_)
ToInt(s) ==
    IF s = <<>> THEN 0
    ELSE 10 * ToInt(SubSeq(s, 1, Len(s) - 1)) + DigitVal(s[Len(s)])

\* s.split('.')
RECURSIVE Split(_)
Split(s) ==
    LET dots == {k \in 1..Len(s) : s[k] = "."}
    IN  IF dots = {} THEN <<s>>
        ELSE LET d == CHOOSE k \in dots : \A j \in dots : k <= j
             IN  <<SubSeq(s, 1, d - 1)>> \o Split(SubSeq(s, d + 1, Len(s)))

SortKey(v) ==
    LET parts == Split(v.version) IN [k \in 1..Len(parts) |-> ToInt(parts[k])]

\* Python's tuple comparison a < b
RECURSIVE TupleLess(_, _)
TupleLess(a, b) ==
    IF a = <<>> THEN b # <<>>
    ELSE IF b = <<>> THEN FALSE
    ELSE IF a[1] # b[1] THEN a[1] < b[1]
    ELSE TupleLess(Tail(a), Tail(b))

\* sorted(..., reverse=True) places x behind every element whose key is not
\* smaller than x's: the sort is stable, equal keys keep their order
RECURSIVE InsertDesc(_, _)
InsertDesc(x, s) ==
    IF s = <<>> THEN <<x>>
    ELSE IF TupleLess(SortKey(s[1]), SortKey(x)) THEN <<x>> \o s
    ELSE <<s[1]>> \o InsertDesc(x, Tail(s))

\* mutant of SortedDesc: reverse=True forgotten, the sort is ascending
RECURSIVE SortedAsc(_)
SortedAsc(vs) ==
    IF vs = <<>> THEN <<>>
    ELSE LET rest == SortedAsc(SubSeq(vs, 1, Len(vs) - 1))
             x == vs[Len(vs)]
             n == Cardinality({k \in 1..Len(rest) : ~TupleLess(SortKey(x), SortKey(rest[k]))})
         IN  SubSeq(rest, 1, n) \o <<x>> \o SubSeq(rest, n + 1, Len(rest))

RECURSIVE SortedDesc(_)
SortedDesc(vs) ==
    IF vs = <<>> THEN <<>>
    ELSE InsertDesc(vs[Len(vs)], SortedDesc(SubSeq(vs, 1, Len(vs) - 1)))

\* the loop of lines 39-42: keep a version the first time its string is seen
RECURSIVE UniqueVersions(_, _)
UniqueVersions(vs, seen_versions) ==
    IF vs = <<>> THEN <<>>
    ELSE IF vs[1].version \in seen_versions
         THEN UniqueVersions(Tail(vs), seen_versions)
         ELSE <<vs[1]>> \o UniqueVersions(Tail(vs), seen_versions \cup {vs[1].version})

\* get_docker_image_tags, from the raw tags on
SelectTags(ts) == Take(UniqueVersions(SortedDesc(Versions(ts)), {}), TopN)

-----------------------------------------------------------------------------
\* Tag names the registry serves in the model.

t1 == <<"1">>
t2 == <<"2">>
t3 == <<"3">>
t4 == <<"4">>
t5 == <<"5">>
t6 == <<"6">>
t7 == <<"7">>
t8 == <<"8">>
t9 == <<"9">>
t10 == <<"1", "0">>
t11 == <<"1", "1">>
t12 == <<"1", "2">>
t01 == <<"0", "1">>
tv2 == <<"v", "2">>
tv2_0 == <<"v", "2", ".", "0">>
t1_2_0 == <<"1", ".", "2", ".", "0">>
t1_10_0 == <<"1", ".", "1", "0", ".", "0">>
t1_2_0_rc1 == <<"1", ".", "2", ".", "0", "-", "r", "c", "1">>
t1_3_0_rc1 == <<"1", ".", "3", ".", "0", "-", "r", "c", "1">>
t2_10_1 == <<"2", ".", "1", "0", ".", "1">>
t2_9_0 == <<"2", ".", "9", ".", "0">>
t1_2_3_4 == <<"1", ".", "2", ".", "3", ".", "4">>
t7_alpine == <<"7", "-", "a", "l", "p", "i", "n", "e">>
t1dot == <<"1", ".">>
tlatest == <<"l", "a", "t", "e", "s", "t">>
tv == <<"v">>

\* pages of the tag listing used with main()
SmallPages == {<<t2, t1>>, <<tlatest, t3>>}

\* pages of the tag listing used to exercise get_docker_image_tags
RichPages ==
    { <<t1, t2, t3, t4, t5, t6>>,
      <<t12, t11, t10, t9, t8, t7>>,
      <<t1_2_0, t1_10_0, tv2_0, tlatest, t1_2_0_rc1>>,
      <<t01, t1, t2_9_0, t2_10_1, tv2, t2>>,
      <<t1_2_3_4, t1_3_0_rc1, t7_alpine, t1dot, tv>>,
      <<>> }

\* version lists the inventory API may return for an image
ApiTagLists == {<<>>, <<t1>>, <<t2, t1>>, <<t3, t3>>}

-----------------------------------------------------------------------------
\* services.json: the configured image names, each split at "/".
Services == {<<"redis">>, <<"bitnami", "nginx">>}

\* a configuration of one image
OneService == {<<"redis">>}

\* lines 28-32 with 47-54: the repository path requested; an image with more
\* than one "/" makes the unpacking of image.split("/") raise
RepoPath(image) ==
    IF Len(image) = 1 THEN <<"library", image[1]>>
    ELSE IF Len(image) = 2 THEN image
    ELSE <<>>

NoImage == <<>>
NoFile == [exists |-> FALSE, data |-> EmptyMap]
EmptyFile == [exists |-> TRUE, data |-> EmptyMap]

Finished == {"ok", "failed", "consumed", "skipped"}

-----------------------------------------------------------------------------
\* Reconciliation helpers of main().

\* [tag['version'] for tag in ts]
VersionList(ts) == [k \in 1..Len(ts) |-> ts[k].version]

\* mutant of NewerTags: the versions already stored are not filtered out
NewerTagsUnfiltered(new_tags, current_tags) == new_tags

\* newer_tags, lines 160-162
NewerTags(new_tags, current_tags) ==
    LET current_versions == Range(VersionList(current_tags))
    IN  SelectSeq(new_tags, LAMBDA tag : tag.version \notin current_versions)

\* mutant of Merged: the newer tags are appended instead of prepended
MergedAppended(newer_tags, current_tags) == current_tags \o newer_tags

\* the value stored in updated_tags[image], line 164
Merged(newer_tags, current_tags) == newer_tags \o current_tags

\* payload["images"] of send_to_api, lines 99-103
Payload(updated) == {[name |-> image, versions |-> updated[image]] : image \in DOMAIN updated}

\* compare_and_identify_deletions, lines 129-131
CompareAndIdentifyDeletions(image_name, latest_tags, api_tags) ==
    LET latest_versions == Range(VersionList(latest_tags))
    IN  SelectSeq(api_tags, LAMBDA tag : tag \notin latest_versions)

\* the latest_tags argument main() passes, line 176
LatestTagsArg(image_name) == updated_tags[image_name]

-----------------------------------------------------------------------------
\* Initial state: no run made yet, the snapshot absent or an empty mapping.

InitWith(pages, names) ==
    /\ hub = pages
    /\ services = names
    /\ run = 1
    /\ pc = "start"
    /\ file \in {NoFile, EmptyFile}
    /\ all_tags = EmptyMap
    /\ updated_tags = EmptyMap
    /\ task = [i \in services |-> "idle"]
    /\ url = [i \in services |-> 0]
    /\ tags = [i \in services |-> <<>>]
    /\ result = [i \in services |-> <<>>]
    /\ synced = {}
    /\ cur = NoImage
    /\ outdated = <<>>
    /\ start_file = file
    /\ writes = 0
    /\ posted = <<>>
    /\ api_seen = [i \in services |-> <<>>]
    /\ deleted = [i \in services |-> <<>>]

Init == InitWith(SmallPages, Services)

InitTags == InitWith(RichPages, OneService)

-----------------------------------------------------------------------------
\* main(), lines 138-144: updated_tags = {} and the creation of a missing
\* all_tags.json holding {}
StartRun ==
    /\ pc = "start"
    /\ updated_tags' = EmptyMap
    /\ IF file.exists
       THEN UNCHANGED <<file, writes>>
       ELSE file' = EmptyFile /\ writes' = writes + 1
    /\ pc' = "load"
    /\ UNCHANGED <<hub, services, run, all_tags, task, url, tags, result, synced, cur,
                   outdated, start_file, posted, api_seen, deleted>>

\* lines 146-150: the snapshot is read and one task per service is submitted
LoadAndSubmit ==
    /\ pc = "load"
    /\ all_tags' = file.data
    /\ task' = [i \in services |-> "running"]
    /\ url' = [i \in services |-> 1]
    /\ tags' = [i \in services |-> <<>>]
    /\ pc' = "consume"
    /\ UNCHANGED <<hub, services, run, file, updated_tags, result, synced, cur, outdated,
                   start_file, writes, posted, api_seen, deleted>>

\* _fetch_and_parse_tags, lines 59-64: one page is fetched and its names are
\* appended; url becomes the page's "next" (0 stands for None)
FetchPage(i) ==
    /\ task[i] = "running"
    /\ url[i] >= 1
    /\ RepoPath(i) # <<>>
    /\ \E page \in hub, next \in BOOLEAN :
         /\ tags' = [tags EXCEPT ![i] = @ \o page]
         /\ url' = [url EXCEPT ![i] = IF next /\ @ < MaxPages THEN @ + 1 ELSE 0]
    /\ UNCHANGED <<hub, services, run, pc, file, all_tags, updated_tags, task, result,
                   synced, cur, outdated, start_file, writes, posted, api_seen,
                   deleted>>

\* a request raises (network error, raise_for_status, malformed body) or the
\* image name does not unpack: the future holds the exception
FetchFail(i) ==
    /\ task[i] = "running"
    /\ url[i] >= 1
    /\ task' = [task EXCEPT ![i] = "failed"]
    /\ tags' = [tags EXCEPT ![i] = <<>>]
    /\ url' = [url EXCEPT ![i] = 0]
    /\ UNCHANGED <<hub, services, run, pc, file, all_tags, updated_tags, result, synced,
                   cur, outdated, start_file, writes, posted, api_seen, deleted>>

\* get_docker_image_tags, lines 34-44: the future holds the selected list
ReturnTags(i) ==
    /\ task[i] = "running"
    /\ url[i] = 0
    /\ result' = [result EXCEPT ![i] = SelectTags(tags[i])]
    /\ task' = [task EXCEPT ![i] = "ok"]
    /\ UNCHANGED <<hub, services, run, pc, file, all_tags, updated_tags, url, tags,
                   synced, cur, outdated, start_file, writes, posted, api_seen,
                   deleted>>

\* mutant of Consume: the update mapping is replaced instead of extended, so
\* that only the image consumed last is kept
ConsumeOverwrites(i) ==
    /\ pc = "consume"
    /\ task[i] = "ok"
    /\ LET current_tags == Get(all_tags, i)
           newer_tags == NewerTags(result[i], current_tags)
       IN  updated_tags' =
             IF newer_tags # <<>>
             THEN i :> Merged(newer_tags, current_tags)
             ELSE updated_tags
    /\ task' = [task EXCEPT ![i] = "consumed"]
    /\ tags' = [tags EXCEPT ![i] = <<>>]
    /\ UNCHANGED <<hub, services, run, pc, file, all_tags, url, result, synced,
                   cur, outdated, start_file, writes, posted, api_seen, deleted>>

\* lines 152-164 for a future that holds a result
Consume(i) ==
    /\ pc = "consume"
    /\ task[i] = "ok"
    /\ LET current_tags == Get(all_tags, i)
           newer_tags == NewerTags(result[i], current_tags)
       IN  updated_tags' =
             IF newer_tags # <<>>
             THEN Update(updated_tags, i :> Merged(newer_tags, current_tags))
             ELSE updated_tags
    /\ task' = [task EXCEPT ![i] = "consumed"]
    /\ tags' = [tags EXCEPT ![i] = <<>>]
    /\ UNCHANGED <<hub, services, run, pc, file, all_tags, url, result, synced, cur,
                   outdated, start_file, writes, posted, api_seen, deleted>>

\* mutant of ConsumeFailed: the exception of the future is not caught and
\* ends the run
ConsumeFailedRaises(i) ==
    /\ pc = "consume"
    /\ task[i] = "failed"
    /\ pc' = "crashed"
    /\ UNCHANGED <<hub, services, run, file, all_tags, updated_tags, task, url,
                   tags, result, synced, cur, outdated, start_file, writes,
                   posted, api_seen, deleted>>

\* lines 156-158 for a future that holds an exception
ConsumeFailed(i) ==
    /\ pc = "consume"
    /\ task[i] = "failed"
    /\ task' = [task EXCEPT ![i] = "skipped"]
    /\ UNCHANGED <<hub, services, run, pc, file, all_tags, updated_tags, url, tags,
                   result, synced, cur, outdated, start_file, writes, posted,
                   api_seen, deleted>>

\* lines 166-171: every future was consumed and updated_tags is not empty
WriteSnapshot ==
    /\ pc = "consume"
    /\ \A i \in services : task[i] \in {"consumed", "skipped"}
    /\ updated_tags # EmptyMap
    /\ all_tags' = Update(all_tags, updated_tags)
    /\ file' = [exists |-> TRUE, data |-> all_tags']
    /\ writes' = writes + 1
    /\ \E enable_api \in BOOLEAN, API_TOKEN \in BOOLEAN :
         pc' = IF enable_api /\ API_TOKEN THEN "post" ELSE "done"
    /\ UNCHANGED <<hub, services, run, updated_tags, task, url, tags, result, synced,
                   cur, outdated, start_file, posted, api_seen, deleted>>

\* mutant of NoNewerTags: the snapshot is written back although nothing
\* changed
NoNewerTagsRewrites ==
    /\ pc = "consume"
    /\ \A i \in services : task[i] \in {"consumed", "skipped"}
    /\ updated_tags = EmptyMap
    /\ file' = [exists |-> TRUE, data |-> all_tags]
    /\ writes' = writes + 1
    /\ pc' = "done"
    /\ UNCHANGED <<hub, services, run, all_tags, updated_tags, task, url, tags,
                   result, synced, cur, outdated, start_file, posted, api_seen,
                   deleted>>

\* lines 166, 182-183: updated_tags is empty
NoNewerTags ==
    /\ pc = "consume"
    /\ \A i \in services : task[i] \in {"consumed", "skipped"}
    /\ updated_tags = EmptyMap
    /\ pc' = "done"
    /\ UNCHANGED <<hub, services, run, file, all_tags, updated_tags, task, url, tags,
                   result, synced, cur, outdated, start_file, writes, posted,
                   api_seen, deleted>>

\* send_to_api, lines 99-105: the POST is made; a non-2xx answer raises
SendToApi ==
    /\ pc = "post"
    /\ posted' = Append(posted, Payload(updated_tags))
    /\ \E ok \in BOOLEAN : pc' = IF ok THEN "sync" ELSE "crashed"
    /\ UNCHANGED <<hub, services, run, file, all_tags, updated_tags, task, url, tags,
                   result, synced, cur, outdated, start_file, writes, api_seen,
                   deleted>>

\* lines 174-176: the inventory's versions of the next image are fetched and
\* its outdated tags computed
FetchImageVersions(image_name) ==
    /\ pc = "sync"
    /\ outdated = <<>>
    /\ image_name \in DOMAIN updated_tags \ synced
    /\ \E api_tags \in ApiTagLists :
         /\ api_seen' = [api_seen EXCEPT ![image_name] = api_tags]
         /\ outdated' = CompareAndIdentifyDeletions(image_name,
                            LatestTagsArg(image_name), api_tags)
    /\ cur' = image_name
    /\ synced' = synced \cup {image_name}
    /\ UNCHANGED <<hub, services, run, pc, file, all_tags, updated_tags, task, url, tags,
                   result, start_file, writes, posted, deleted>>

\* fetch_image_versions raises (lines 88-89)
FetchImageVersionsFail ==
    /\ pc = "sync"
    /\ outdated = <<>>
    /\ DOMAIN updated_tags \ synced # {}
    /\ pc' = "crashed"
    /\ UNCHANGED <<hub, services, run, file, all_tags, updated_tags, task, url, tags,
                   result, synced, cur, outdated, start_file, writes, posted,
                   api_seen, deleted>>

\* lines 177-179 with 114-115: one DELETE is issued; a non-2xx answer raises
DeleteContainerImage ==
    /\ pc = "sync"
    /\ outdated # <<>>
    /\ deleted' = [deleted EXCEPT ![cur] = Append(@, Head(outdated))]
    /\ \E ok \in BOOLEAN :
         IF ok THEN outdated' = Tail(outdated) /\ pc' = pc
         ELSE outdated' = <<>> /\ pc' = "crashed"
    /\ UNCHANGED <<hub, services, run, file, all_tags, updated_tags, task, url, tags,
                   result, synced, cur, start_file, writes, posted, api_seen>>

\* line 181: the loop over updated_tags.keys() is over
SyncDone ==
    /\ pc = "sync"
    /\ outdated = <<>>
    /\ synced = DOMAIN updated_tags
    /\ pc' = "done"
    /\ UNCHANGED <<hub, services, run, file, all_tags, updated_tags, task, url, tags,
                   result, synced, cur, outdated, start_file, writes, posted,
                   api_seen, deleted>>

\* the program is started again on the file the last run left
NextRun ==
    /\ pc \in {"done", "crashed"}
    /\ run < MaxRuns
    /\ run' = run + 1
    /\ pc' = "start"
    /\ all_tags' = EmptyMap
    /\ updated_tags' = EmptyMap
    /\ task' = [i \in services |-> "idle"]
    /\ url' = [i \in services |-> 0]
    /\ tags' = [i \in services |-> <<>>]
    /\ result' = [i \in services |-> <<>>]
    /\ synced' = {}
    /\ cur' = NoImage
    /\ outdated' = <<>>
    /\ start_file' = file
    /\ writes' = 0
    /\ posted' = <<>>
    /\ api_seen' = [i \in services |-> <<>>]
    /\ deleted' = [i \in services |-> <<>>]
    /\ UNCHANGED <<hub, services, file>>

Next ==
    \/ StartRun
    \/ LoadAndSubmit
    \/ \E i \in services : FetchPage(i)
    \/ \E i \in services : FetchFail(i)
    \/ \E i \in services : ReturnTags(i)
    \/ \E i \in services : Consume(i)
    \/ \E i \in services : ConsumeFailed(i)
    \/ WriteSnapshot
    \/ NoNewerTags
    \/ SendToApi
    \/ \E i \in services : FetchImageVersions(i)
    \/ FetchImageVersionsFail
    \/ DeleteContainerImage
    \/ SyncDone
    \/ NextRun

Spec == Init /\ [][Next]_vars

\* the fetch-and-filter tasks of one run, over the rich tag listing
NextTags ==
    \/ StartRun
    \/ LoadAndSubmit
    \/ \E i \in services : FetchPage(i)
    \/ \E i \in services : FetchFail(i)
    \/ \E i \in services : ReturnTags(i)

SpecTags == InitTags /\ [][NextTags]_vars

-----------------------------------------------------------------------------
\* Vocabulary of the properties, stated apart from the operators above.

RunEnd == pc \in {"done", "crashed"}

\* the list the snapshot held for an image when the run started
CurrentAtStart(i) == Get(start_file.data, i)

\* the entries of new whose version is not a version of current, in new's order
NewerThan(new, current) ==
    SelectSeq(new, LAMBDA t : \A k \in 1..Len(current) : current[k].version # t.version)

\* what the run has to persist for an image whose fetch succeeded
ExpectedList(i) ==
    LET newer == NewerThan(result[i], CurrentAtStart(i))
    IN  IF newer # <<>> THEN newer \o CurrentAtStart(i) ELSE CurrentAtStart(i)

\* the images whose fetch succeeded and brought a newer tag
ExpectedUpdated ==
    {i \in services : task[i] = "consumed"
                        /\ NewerThan(result[i], CurrentAtStart(i)) # <<>>}

-----------------------------------------------------------------------------
\* C1: when a run has ended, for every image whose fetch succeeded: with
\* current the list the snapshot held at run start (empty if absent), new the
\* freshly selected list and newer the entries of new whose version is not in
\* current, the persisted list is newer followed by current unchanged when
\* newer is not empty, and is current when newer is empty.
C1_Reconciliation ==
    RunEnd =>
      \A i \in services :
        task[i] = "consumed" =>
          LET current == CurrentAtStart(i)
              newer == NewerThan(result[i], current)
          IN  IF newer # <<>>
              THEN /\ i \in DOMAIN file.data
                   /\ file.data[i] = newer \o current
                   /\ SubSeq(file.data[i], Len(newer) + 1, Len(file.data[i])) = current
              ELSE Get(file.data, i) = current

\* a run ended in which an image with a non-empty stored list got some but not
\* all of its fetched versions prepended
C1_Witness ==
    /\ RunEnd
    /\ \E i \in services :
         /\ task[i] = "consumed"
         /\ CurrentAtStart(i) # <<>>
         /\ NewerThan(result[i], CurrentAtStart(i)) # <<>>
         /\ Len(NewerThan(result[i], CurrentAtStart(i))) < Len(result[i])
         /\ file.data[i] = NewerThan(result[i], CurrentAtStart(i)) \o CurrentAtStart(i)

-----------------------------------------------------------------------------
\* C2: a fetch failure is isolated: when a run has ended every task was
\* consumed, each image whose task succeeded has its merged list persisted as
\* if no task had failed, each image whose task failed has the snapshot entry
\* it had at run start (absent stays absent); a failed task can always be
\* skipped by the consuming loop, and a run crashes only after the inventory
\* POST was made.
C2_FailureIsolation ==
    /\ RunEnd =>
         \A i \in services :
           /\ task[i] \in {"consumed", "skipped"}
           /\ task[i] = "consumed" => Get(file.data, i) = ExpectedList(i)
           /\ task[i] = "skipped" =>
                /\ (i \in DOMAIN file.data) = (i \in DOMAIN start_file.data)
                /\ Get(file.data, i) = CurrentAtStart(i)
    /\ pc = "crashed" => Len(posted) >= 1
    /\ \A i \in services :
         (pc = "consume" /\ task[i] = "failed") => ENABLED ConsumeFailed(i)

\* a run ended in which one task failed for an image the snapshot knew and
\* another image was updated
C2_Witness ==
    /\ RunEnd
    /\ \E i, j \in services :
         /\ task[i] = "skipped"
         /\ CurrentAtStart(i) # <<>>
         /\ task[j] = "consumed"
         /\ j \in DOMAIN file.data
         /\ file.data[j] # CurrentAtStart(j)

-----------------------------------------------------------------------------
\* C3 as stated: in a run in which no image yields a newer tag the file is
\* never written and is at run end what it was at run start, also when it
\* did not exist.
C3_NoWriteAtAll ==
    (RunEnd /\ updated_tags = EmptyMap) => (writes = 0 /\ file = start_file)

\* C3 amended: in such a run a file that existed at run start is never
\* written and is unchanged at run end; a file that did not exist is written
\* once, by its creation, and holds the empty mapping at run end.
C3_NoWriteUnlessCreated ==
    (RunEnd /\ updated_tags = EmptyMap) =>
      IF start_file.exists
      THEN writes = 0 /\ file = start_file
      ELSE writes = 1 /\ file = EmptyFile

\* a run over a non-empty snapshot ended without a newer tag, a fetch having
\* succeeded
C3_Witness ==
    /\ RunEnd
    /\ updated_tags = EmptyMap
    /\ start_file.exists
    /\ start_file.data # EmptyMap
    /\ \E i \in services : task[i] = "consumed" /\ result[i] # <<>>

-----------------------------------------------------------------------------
\* The whole of a tag is an optional "v" and 1 to 3 dot-separated numbers.
StrictTag(tag) ==
    LET body == SubSeq(tag, AfterV(tag), Len(tag))
        parts == Split(body)
    IN  /\ Len(parts) \in 1..3
        /\ \A k \in 1..Len(parts) :
             parts[k] # <<>> /\ \A c \in Range(parts[k]) : c \in Digits

\* C4: a returned version comes only from a tag that is, as a whole, an
\* optional "v" and 1 to 3 dot-separated numbers: every version of the result
\* is such a tag without its "v", and the other tags contribute nothing.
C4_StrictFilter ==
    \A i \in services :
      task[i] = "ok" =>
        /\ \A k \in 1..Len(result[i]) :
             \E t \in Range(tags[i]) :
               /\ StrictTag(t)
               /\ result[i][k].version = SubSeq(t, AfterV(t), Len(t))
        /\ result[i] = SelectTags(SelectSeq(tags[i], StrictTag))

-----------------------------------------------------------------------------
\* The reference pipeline of C5.

\* deduplicate by version string, keeping the first occurrence
RefDedup(vs) ==
    LET keep == {k \in 1..Len(vs) : \A j \in 1..(k - 1) : vs[j].version # vs[k].version}
        Nth(n) == CHOOSE k \in keep : Cardinality({j \in keep : j < k}) = n - 1
    IN  [n \in 1..Cardinality(keep) |-> vs[Nth(n)]]

\* stable sort, descending by the tuple of integers: an element's place is one
\* more than the number of elements that go before it
RefStableDesc(d) ==
    LET Before(m, j) == \/ TupleLess(SortKey(d[j]), SortKey(d[m]))
                        \/ (SortKey(d[j]) = SortKey(d[m]) /\ m < j)
        Place(j) == 1 + Cardinality({m \in 1..Len(d) : Before(m, j)})
    IN  [p \in 1..Len(d) |-> d[CHOOSE j \in 1..Len(d) : Place(j) = p]]

-----------------------------------------------------------------------------
\* C6: when the sync of an image is over, the tags a DELETE was issued for
\* are exactly the tags the inventory returned for it that are absent from the
\* tag set freshly fetched in this run, one DELETE for each.
C6_DeletesAbsentFromFetched ==
    \A i \in services :
      (pc = "done" /\ i \in synced) =>
        LET fetched == {result[i][k].version : k \in 1..Len(result[i])}
        IN  /\ Range(deleted[i]) = {t \in Range(api_seen[i]) : t \notin fetched}
            /\ Len(deleted[i]) = Cardinality(Range(deleted[i]))

-----------------------------------------------------------------------------
\* C7: at most one POST is made in a run, it has been made once the sync goes
\* on, and the versions it carries for an image are the tags newly discovered
\* for that image in this run, not the merged list.
C7_PayloadIsNewerOnly ==
    /\ Len(posted) <= 1
    /\ pc = "sync" => Len(posted) = 1
    /\ \A n \in 1..Len(posted) :
         \A e \in posted[n] :
           e.versions = NewerThan(result[e.name], CurrentAtStart(e.name))

-----------------------------------------------------------------------------
\* C8: in every state of every sequence of runs that starts from an absent or
\* empty snapshot, no list of the snapshot file holds a version string twice.
C8_UniqueVersions ==
    \A i \in DOMAIN file.data :
      \A k, l \in 1..Len(file.data[i]) :
        k # l => file.data[i][k].version # file.data[i][l].version

\* a later run, in which a task failed, has lengthened a non-empty list
C8_Witness ==
    /\ RunEnd
    /\ run > 1
    /\ \E i, j \in services :
         /\ task[j] = "skipped"
         /\ CurrentAtStart(i) # <<>>
         /\ i \in DOMAIN file.data
         /\ Len(file.data[i]) > Len(CurrentAtStart(i))

-----------------------------------------------------------------------------
\* C9: in every state of every sequence of runs that starts from an absent or
\* empty snapshot, every list of the snapshot file is ordered descending by
\* the integer tuple of its versions.
C9_DescendingOrder ==
    \A i \in DOMAIN file.data :
      \A k, l \in 1..Len(file.data[i]) :
        k < l => ~TupleLess(SortKey(file.data[i][k]), SortKey(file.data[i][l]))

-----------------------------------------------------------------------------
\* What the run has to leave in the snapshot, from the snapshot at run start
\* and the outcome of each fetch alone.
ExpectedData ==
    [i \in DOMAIN start_file.data \cup ExpectedUpdated |->
       IF i \in ExpectedUpdated THEN ExpectedList(i) ELSE start_file.data[i]]

\* the end of a run depends on the start snapshot and the fetch outcomes only
C10_OrderIndependent ==
    RunEnd => (file.data = ExpectedData /\ DOMAIN updated_tags = ExpectedUpdated)

\* a step of the worker of a running task
C10_WorkerStep ==
    \E i \in services :
      /\ task[i] = "running"
      /\ <<task[i], url[i], tags[i], result[i]>>' # <<task[i], url[i], tags[i], result[i]>>

C10_WorkersDoNotWrite ==
    C10_WorkerStep => UNCHANGED <<updated_tags, all_tags, file, writes>>

C10_AllTasksOver == \A i \in services : task[i] \in Finished

\* C10 as stated: the end of a run is the same for every completion order,
\* no worker step writes the update mapping or the snapshot, and the file is
\* written only when every task has completed or failed.
C10_WriteOnlyAfterTasks ==
    /\ [](C10_OrderIndependent)
    /\ [][C10_WorkersDoNotWrite]_vars
    /\ [][writes' # writes => (writes' = 0 \/ C10_AllTasksOver)]_vars

\* C10 amended: the same, but the file is written either when every task has
\* completed or failed, or before any task is submitted, by the creation of a
\* missing file holding the empty mapping.
C10_WriteNeverDuringTasks ==
    /\ [](C10_OrderIndependent)
    /\ [][C10_WorkersDoNotWrite]_vars
    /\ [][writes' # writes =>
            \/ writes' = 0
            \/ C10_AllTasksOver
            \/ /\ \A i \in services : task[i] = "idle"
               /\ ~file.exists
               /\ file' = EmptyFile]_vars

\* a run over a non-empty snapshot ended with both images updated
C10_Witness ==
    /\ RunEnd
    /\ ExpectedUpdated = services
    /\ file.data = ExpectedData
    /\ \E i \in services : CurrentAtStart(i) # <<>>

====
